---- MODULE Spec2Model ----
(***************************************************************************)
(* Model of the tabular query engine of sql_db_app:                        *)
(*   src/src/utils/sqlEngine.ts  (class SimpleSQLEngine)                   *)
(*   src/src/utils/csvLoader.ts  (the table provider and the catalog)      *)
(*                                                                         *)
(* Query strings, column names and string values are TLA+ strings; the     *)
(* JavaScript string and regular-expression operations the engine uses are *)
(* defined below character by character.  JavaScript numbers are modelled  *)
(* as exact rationals n/d (IEEE-754 rounding is not modelled).             *)
(***************************************************************************)
EXTENDS Integers, Sequences, FiniteSets, TLC

(***************************************************************************)
(* Bounds of the model.                                                    *)
(***************************************************************************)
MaxRows == 3
MaxCalls == 2
MaxExecutions == 12
MaxTabs == 3
MaxClock == 2

(***************************************************************************)
(* JavaScript strings.                                                     *)
(***************************************************************************)
At(s, i) == SubSeq(s, i, i)

Substr(s, i, j) == IF i > j THEN "" ELSE SubSeq(s, i, j)

UpperAlpha == "ABCDEFGHIJKLMNOPQRSTUVWXYZ"

LowerAlpha == "abcdefghijklmnopqrstuvwxyz"

DigitChars == "0123456789"

\* the least and the greatest member of a set of positions, 0 for the empty set
Least(S) == IF S = {} THEN 0 ELSE CHOOSE i \in S : \A j \in S : i <= j

Greatest(S) == IF S = {} THEN 0 ELSE CHOOSE i \in S : \A j \in S : i >= j

\* the place of the character c in the alphabet, or 0
IndexIn(alphabet, c) == Least({i \in 1..Len(alphabet) : At(alphabet, i) = c})

\* String.prototype.toLowerCase / toUpperCase
RECURSIVE toLowerCase(_)
toLowerCase(s) ==
  IF s = "" THEN ""
  ELSE LET lower(k) == IF k > 0 THEN At(LowerAlpha, k) ELSE Head(s)
       IN lower(IndexIn(UpperAlpha, Head(s))) \o toLowerCase(Tail(s))

RECURSIVE toUpperCase(_)
toUpperCase(s) ==
  IF s = "" THEN ""
  ELSE LET upper(k) == IF k > 0 THEN At(UpperAlpha, k) ELSE Head(s)
       IN upper(IndexIn(LowerAlpha, Head(s))) \o toUpperCase(Tail(s))

\* the regular-expression character class \s
IsSpace(c) == c \in {" ", "\t", "\n", "\r"}

\* String.prototype.trim
RECURSIVE trimStart(_)
trimStart(s) == IF s # "" /\ IsSpace(Head(s)) THEN trimStart(Tail(s)) ELSE s

RECURSIVE trimEnd(_)
trimEnd(s) ==
  IF s # "" /\ IsSpace(At(s, Len(s))) THEN trimEnd(Substr(s, 1, Len(s) - 1)) ELSE s

trim(s) == trimEnd(trimStart(s))

\* String.prototype.startsWith / endsWith / includes
startsWith(s, p) == Len(p) <= Len(s) /\ Substr(s, 1, Len(p)) = p

endsWith(s, p) == Len(p) <= Len(s) /\ Substr(s, Len(s) - Len(p) + 1, Len(s)) = p

\* the literal p occurs in s at position i
OccursAt(s, i, p) == i >= 1 /\ i + Len(p) - 1 <= Len(s) /\ Substr(s, i, i + Len(p) - 1) = p

includes(s, p) == \E i \in 1..(Len(s) + 1) : OccursAt(s, i, p)

\* String.prototype.split with a non-empty string separator
RECURSIVE split(_, _)
split(s, sep) ==
  IF ~includes(s, sep) THEN <<s>>
  ELSE LET cut(i) == <<Substr(s, 1, i - 1)>> \o split(Substr(s, i + Len(sep), Len(s)), sep)
       IN cut(Least({k \in 1..Len(s) : OccursAt(s, k, sep)}))

\* Array.prototype.join
RECURSIVE join(_, _)
join(parts, sep) ==
  IF Len(parts) = 0 THEN ""
  ELSE IF Len(parts) = 1 THEN parts[1]
  ELSE parts[1] \o sep \o join(Tail(parts), sep)

\* the literal kw (given in lower case) occurs in s at i, letter case ignored (the i flag)
OccursAtI(s, i, kw) ==
  i >= 1 /\ i + Len(kw) - 1 <= Len(s) /\ toLowerCase(Substr(s, i, i + Len(kw) - 1)) = kw

\* number of consecutive characters of a class in s from position i on: greedy
\* \s+, \w+ and \d+
RECURSIVE SpaceRun(_, _)
SpaceRun(s, i) == IF i <= Len(s) /\ IsSpace(At(s, i)) THEN 1 + SpaceRun(s, i + 1) ELSE 0

RECURSIVE WordRun(_, _)
WordRun(s, i) ==
  IF i <= Len(s) /\ IndexIn(UpperAlpha \o LowerAlpha \o DigitChars \o "_", At(s, i)) > 0
  THEN 1 + WordRun(s, i + 1) ELSE 0

RECURSIVE DigitRun(_, _)
DigitRun(s, i) ==
  IF i <= Len(s) /\ IndexIn(DigitChars, At(s, i)) > 0 THEN 1 + DigitRun(s, i + 1) ELSE 0

(***************************************************************************)
(* JavaScript values.  A number is the exact rational n/d in lowest terms  *)
(* with d > 0; NaN is a value of its own.  A row is a function from its    *)
(* own column names to values; reading a column the row does not have      *)
(* gives undefined.                                                        *)
(***************************************************************************)
RECURSIVE GCD(_, _)
GCD(a, b) == IF b = 0 THEN a ELSE GCD(b, a % b)

Abs(n) == IF n < 0 THEN -n ELSE n

Num(n, d) ==
  LET lowest(g) == [t |-> "number", n |-> n \div g, d |-> d \div g] IN lowest(GCD(Abs(n), d))

IntNum(n) == [t |-> "number", n |-> n, d |-> 1]

NaN == [t |-> "NaN"]

Null == [t |-> "null"]

Undefined == [t |-> "undefined"]

Str(s) == [t |-> "string", s |-> s]

Bool(b) == [t |-> "boolean", b |-> b]

\* a built-in function object with the given name and length property
Fn(name, length) == [t |-> "function", name |-> name, length |-> length]

\* Object.prototype, which every object literal and every parsed row inherits
\* from: the properties a lookup finds when the object has no own property of
\* that name
ObjectPrototype ==
  [k \in {"constructor", "toString", "toLocaleString", "valueOf", "hasOwnProperty",
          "isPrototypeOf", "propertyIsEnumerable", "__proto__"} |->
     CASE k = "constructor" -> Fn("Object", 1)
       [] k \in {"toString", "toLocaleString", "valueOf"} -> Fn(k, 0)
       [] k \in {"hasOwnProperty", "isPrototypeOf", "propertyIsEnumerable"} -> Fn(k, 1)
       [] k = "__proto__" -> [t |-> "object"]]

\* object[key] on a plain object with the own properties own
Get(own, key) ==
  IF key \in DOMAIN own THEN own[key]
  ELSE IF key \in DOMAIN ObjectPrototype THEN ObjectPrototype[key]
  ELSE Undefined

\* object[key] = value
Put(own, key, value) ==
  [k \in DOMAIN own \cup {key} |-> IF k = key THEN value ELSE own[k]]

RECURSIVE Pow10(_)
Pow10(k) == IF k = 0 THEN 1 ELSE 10 * Pow10(k - 1)

\* parseInt of a string of decimal digits
RECURSIVE parseInt(_)
parseInt(s) ==
  IF s = "" THEN 0
  ELSE 10 * parseInt(Substr(s, 1, Len(s) - 1)) + IndexIn(DigitChars, At(s, Len(s))) - 1

RECURSIVE IntToStr(_)
IntToStr(n) ==
  IF n < 10 THEN At(DigitChars, n + 1)
  ELSE IntToStr(n \div 10) \o At(DigitChars, (n % 10) + 1)

RECURSIVE PadLeft(_, _)
PadLeft(s, k) == IF Len(s) >= k THEN s ELSE PadLeft("0" \o s, k)

\* String(number) prints the shortest decimal that reads back as the number; the
\* model prints the exact expansion, cut after MaxFractionDigits places when the
\* rational has no shorter one (no number the engine converts to a string does)
MaxFractionDigits == 6

RECURSIVE FractionDigits(_, _)
FractionDigits(d, k) ==
  IF k >= MaxFractionDigits \/ Pow10(k) % d = 0 THEN k ELSE FractionDigits(d, k + 1)

\* Number::toString for a number that is not NaN
NumToStr(x) ==
  LET fraction(k, m) == IntToStr(m \div Pow10(k)) \o "." \o PadLeft(IntToStr(m % Pow10(k)), k)
      places(k) == IF k = 0 THEN IntToStr(Abs(x.n))
                   ELSE fraction(k, (Abs(x.n) * Pow10(k)) \div x.d)
  IN (IF x.n < 0 THEN "-" ELSE "") \o places(FractionDigits(x.d, 0))

\* String(value)
JSString(v) ==
  CASE v.t = "string" -> v.s
    [] v.t = "number" -> NumToStr(v)
    [] v.t = "NaN" -> "NaN"
    [] v.t = "null" -> "null"
    [] v.t = "undefined" -> "undefined"
    [] v.t = "boolean" -> IF v.b THEN "true" ELSE "false"
    [] v.t = "function" -> "function " \o v.name \o "() { [native code] }"
    [] v.t = "object" -> "[object Object]"

\* The longest decimal literal [+-]digits[.digits] at the start of t: its length
\* (0 when there is none) and its value.  Exponents, hexadecimal literals and
\* "Infinity" are not recognised; no input of the model contains them.
ParseDecimal(t) ==
  LET literal(sg, ip, fp, len) ==
        IF ip = 0 /\ fp = 0 THEN [len |-> 0, val |-> NaN]
        ELSE LET signed(mag) == Num(IF sg = 1 /\ Head(t) = "-" THEN -mag ELSE mag, Pow10(fp))
             IN [len |-> len,
                 val |-> signed(parseInt(Substr(t, sg + 1, sg + ip)
                                           \o Substr(t, sg + ip + 2, sg + ip + 1 + fp)))]
      fraction(sg, ip, dot, fp) ==
        literal(sg, ip, fp, sg + ip + (IF dot /\ (ip > 0 \/ fp > 0) THEN 1 + fp ELSE 0))
      point(sg, ip, dot) == fraction(sg, ip, dot, IF dot THEN DigitRun(t, sg + ip + 2) ELSE 0)
      integer(sg, ip) == point(sg, ip, OccursAt(t, sg + ip + 1, "."))
      sign(sg) == integer(sg, DigitRun(t, sg + 1))
  IN sign(IF t # "" /\ Head(t) \in {"+", "-"} THEN 1 ELSE 0)

\* parseFloat(value): the value is converted to a string, leading white space is
\* skipped and the longest numeric prefix is read
parseFloat(v) == ParseDecimal(trimStart(JSString(v))).val

\* ToNumber(value), the conversion done by ==, <, > on operands of mixed type
ToNumber(v) ==
  CASE v.t = "number" -> v
    [] v.t = "NaN" -> NaN
    [] v.t = "undefined" -> NaN
    [] v.t = "null" -> IntNum(0)
    [] v.t = "boolean" -> IF v.b THEN IntNum(1) ELSE IntNum(0)
    [] v.t \in {"function", "object"} -> NaN
    [] v.t = "string" ->
         LET whole(t, p) == IF t = "" THEN IntNum(0) ELSE IF p.len = Len(t) THEN p.val ELSE NaN
             read(t) == whole(t, ParseDecimal(t))
         IN read(trim(v.s))

NumLess(x, y) == x.n * y.d < y.n * x.d

NumAdd(x, y) == Num(x.n * y.d + y.n * x.d, x.d * y.d)

\* x / k for an integer k > 0
NumDivInt(x, k) == Num(x.n, x.d * k)

\* x == y (abstract equality)
LooseEquals(x, y) ==
  LET same(nx, ny) == nx.t = "number" /\ ny.t = "number" /\ nx = ny
  IN IF x.t \in {"null", "undefined"} \/ y.t \in {"null", "undefined"}
     THEN x.t \in {"null", "undefined"} /\ y.t \in {"null", "undefined"}
     ELSE IF x.t = "string" /\ y.t = "string" THEN x.s = y.s
     ELSE IF x.t \in {"function", "object"} THEN y.t = "string" /\ JSString(x) = y.s
     ELSE same(ToNumber(x), ToNumber(y))

\* x < y where x and y are not both strings (the only use the engine makes of it)
LessThan(x, y) ==
  LET less(nx, ny) == nx.t = "number" /\ ny.t = "number" /\ NumLess(nx, ny)
  IN less(ToNumber(x), ToNumber(y))

\* the values that count as true in  value || other
Truthy(v) ==
  CASE v.t = "string" -> v.s # ""
    [] v.t = "number" -> v.n # 0
    [] v.t = "boolean" -> v.b
    [] v.t \in {"function", "object"} -> TRUE
    [] OTHER -> FALSE

(***************************************************************************)
(* The regular expressions of handleSelectQuery and applyWhereClause.      *)
(* String.prototype.match returns the leftmost match; at one start         *)
(* position a greedy \s+ gives characters back only when the rest fails,   *)
(* and the lazy group (.+?) takes the fewest characters that let the rest  *)
(* match.  A match is [found, g1, g2]: whether the expression matched and  *)
(* its capture groups.                                                     *)
(***************************************************************************)
NoMatch == [found |-> FALSE, g1 |-> "", g2 |-> ""]

RECURSIVE DotRun(_, _)
DotRun(s, i) ==
  IF i <= Len(s) /\ At(s, i) \notin {"\n", "\r"} THEN 1 + DotRun(s, i + 1) ELSE 0

\* the position after a match of  group\s+by  at i, or 0
GroupByAt(s, i) ==
  LET r == SpaceRun(s, i + 5)
  IN IF OccursAtI(s, i, "group") /\ r >= 1 /\ OccursAtI(s, i + 5 + r, "by")
     THEN i + 5 + r + 2 ELSE 0

\* the position after a match of  order\s+by  at i, or 0
OrderByAt(s, i) ==
  LET r == SpaceRun(s, i + 5)
  IN IF OccursAtI(s, i, "order") /\ r >= 1 /\ OccursAtI(s, i + 5 + r, "by")
     THEN i + 5 + r + 2 ELSE 0

\* \s+from\s+(\w+) matches at p
FromTableAt(s, p) ==
  LET r == SpaceRun(s, p)
      r2 == SpaceRun(s, p + r + 4)
  IN r >= 1 /\ OccursAtI(s, p + r, "from") /\ r2 >= 1 /\ WordRun(s, p + r + 4 + r2) >= 1

\* (?=\s+(?:group\s+by|order\s+by|limit|$)) holds at p
WhereLookahead(s, p) ==
  LET r == SpaceRun(s, p)
  IN r >= 1 /\ (\/ GroupByAt(s, p + r) > 0
                \/ OrderByAt(s, p + r) > 0
                \/ OccursAtI(s, p + r, "limit")
                \/ p + r = Len(s) + 1)

\* (?=\s+(?:order\s+by|limit|$)) holds at p
GroupByLookahead(s, p) ==
  LET r == SpaceRun(s, p)
  IN r >= 1 /\ (\/ OrderByAt(s, p + r) > 0
                \/ OccursAtI(s, p + r, "limit")
                \/ p + r = Len(s) + 1)

\* (?=\s+limit|$) holds at p
OrderByLookahead(s, p) ==
  LET r == SpaceRun(s, p)
  IN (r >= 1 /\ OccursAtI(s, p + r, "limit")) \/ p = Len(s) + 1

\* (.+?) from position a: the last position of the shortest capture after which
\* Rest holds, or 0
LazyEnd(s, a, Rest(_, _)) == Least({j \in a..(a + DotRun(s, a) - 1) : Rest(s, j + 1)})

\* Head \s+ (.+?) Rest  tried at start position i: [ok, from, to], the capture
\* being s[from..to].  HeadAt gives the position after Head.
MatchAt(s, i, HeadAt(_, _), Rest(_, _)) ==
  LET capture(from) == IF from = 0 THEN [ok |-> FALSE, from |-> 0, to |-> 0]
                       ELSE [ok |-> TRUE, from |-> from, to |-> LazyEnd(s, from, Rest)]
      spaces(e, k) == capture(IF k = 0 THEN 0 ELSE e + k)
      head(e) == spaces(e, IF e = 0 THEN 0
                           ELSE Greatest({k \in 1..SpaceRun(s, e) : LazyEnd(s, e + k, Rest) > 0}))
  IN head(HeadAt(s, i))

\* the leftmost match of  Head \s+ (.+?) Rest  in s
LazyMatch(s, HeadAt(_, _), Rest(_, _)) ==
  LET from(i) == IF i = 0 THEN [ok |-> FALSE, from |-> 0, to |-> 0]
                 ELSE MatchAt(s, i, HeadAt, Rest)
  IN from(Least({i \in 1..Len(s) : MatchAt(s, i, HeadAt, Rest).ok}))

\* the result of match for a pattern with one group, captured by the match m
Captured(query, m) ==
  IF ~m.ok THEN NoMatch ELSE [found |-> TRUE, g1 |-> Substr(query, m.from, m.to), g2 |-> ""]

\* query.match(/select\s+(.+?)\s+from\s+(\w+)/i)
selectMatch(query) ==
  LET table(w) == Substr(query, w, w + WordRun(query, w) - 1)
      from(t) == table(t + SpaceRun(query, t))
      spaces(p) == from(p + SpaceRun(query, p) + 4)
      matched(m) == IF ~m.ok THEN NoMatch
                    ELSE [found |-> TRUE, g1 |-> Substr(query, m.from, m.to),
                          g2 |-> spaces(m.to + 1)]
  IN matched(LazyMatch(query, LAMBDA s, i : IF OccursAtI(s, i, "select") THEN i + 6 ELSE 0,
                       FromTableAt))

\* query.match(/where\s+(.+?)(?=\s+(?:group\s+by|order\s+by|limit|$))/i)
whereMatch(query) ==
  Captured(query, LazyMatch(query, LAMBDA s, i : IF OccursAtI(s, i, "where") THEN i + 5 ELSE 0,
                            WhereLookahead))

\* query.match(/group\s+by\s+(.+?)(?=\s+(?:order\s+by|limit|$))/i)
groupByMatch(query) == Captured(query, LazyMatch(query, GroupByAt, GroupByLookahead))

\* query.match(/order\s+by\s+(.+?)(?=\s+limit|$)/i)
orderMatch(query) == Captured(query, LazyMatch(query, OrderByAt, OrderByLookahead))

\* query.match(/limit\s+(\d+)/i)
limitMatch(query) ==
  LET digits(d) == [found |-> TRUE, g1 |-> Substr(query, d, d + DigitRun(query, d) - 1),
                    g2 |-> ""]
      matched(i) == IF i = 0 THEN NoMatch ELSE digits(i + 5 + SpaceRun(query, i + 5))
  IN matched(Least({i \in 1..Len(query) :
                      /\ OccursAtI(query, i, "limit")
                      /\ SpaceRun(query, i + 5) >= 1
                      /\ DigitRun(query, i + 5 + SpaceRun(query, i + 5)) >= 1}))

\* the length of a match of  \s+and\s+|\s+or\s+  (letter case ignored) at p, or 0
AndOrAt(s, p) ==
  LET r == SpaceRun(s, p)
      ra == SpaceRun(s, p + r + 3)
      ro == SpaceRun(s, p + r + 2)
  IN IF r >= 1 /\ OccursAtI(s, p + r, "and") /\ ra >= 1 THEN r + 3 + ra
     ELSE IF r >= 1 /\ OccursAtI(s, p + r, "or") /\ ro >= 1 THEN r + 2 + ro
     ELSE 0

\* whereClause.split(/\s+and\s+/i)
RECURSIVE splitAnd(_)
splitAnd(s) ==
  LET at(p) == IF OccursAtI(s, p + SpaceRun(s, p), "and") THEN AndOrAt(s, p) ELSE 0
      cut(p) == IF p = 0 THEN <<s>>
                ELSE <<Substr(s, 1, p - 1)>> \o splitAnd(Substr(s, p + at(p), Len(s)))
  IN cut(Least({p \in 1..Len(s) : at(p) > 0}))

\* whereClause.split(/\s+and\s+|\s+or\s+/i)
RECURSIVE splitAndOr(_)
splitAndOr(s) ==
  LET cut(p) == IF p = 0 THEN <<s>>
                ELSE <<Substr(s, 1, p - 1)>> \o splitAndOr(Substr(s, p + AndOrAt(s, p), Len(s)))
  IN cut(Least({p \in 1..Len(s) : AndOrAt(s, p) > 0}))

(***************************************************************************)
(* SimpleSQLEngine: the stages of a SELECT query.                          *)
(***************************************************************************)
\* a thrown exception, as the value of an operator that can throw
Throw(name, message) == [t |-> "throw", name |-> name, message |-> message]

IsThrow(x) == x.t = "throw"

\* array.map(part => part.trim())
TrimAll(parts) == [i \in 1..Len(parts) |-> trim(parts[i])]

\* value.replace(/['"]/g, '')
RECURSIVE stripQuotes(_)
stripQuotes(s) ==
  IF s = "" THEN ""
  ELSE (IF Head(s) \in {"'", "\""} THEN "" ELSE Head(s)) \o stripQuotes(Tail(s))

operators == <<"=", "!=", ">", "<", ">=", "<=", "like", "contains">>

\* the switch of evaluateCondition
evaluateOperator(operator, columnValue, value) ==
  LET ordered(left, number) ==
        /\ left.t = "number"
        /\ number.t = "number"
        /\ CASE operator = ">" -> NumLess(number, left)
             [] operator = "<" -> NumLess(left, number)
             [] operator = ">=" -> ~NumLess(left, number)
             [] operator = "<=" -> ~NumLess(number, left)
  IN CASE operator = "=" -> LooseEquals(columnValue, Str(value))
       [] operator = "!=" -> ~LooseEquals(columnValue, Str(value))
       [] operator \in {">", "<", ">=", "<="} ->
            ordered(ToNumber(columnValue), parseFloat(Str(value)))
       [] operator \in {"like", "contains"} ->
            includes(toLowerCase(JSString(columnValue)), stripQuotes(toLowerCase(value)))

\* evaluateCondition(row, condition): the first operator of the list that occurs in
\* the condition and splits it in exactly two parts decides
evaluateCondition(row, condition) ==
  LET compare(operator, columnValue, value) ==
        IF columnValue.t = "undefined" THEN FALSE
        ELSE evaluateOperator(operator, columnValue, value)
      parted(operator, parts) == compare(operator, Get(row, parts[1]), parts[2])
      decide(i) == IF i = 0 THEN TRUE
                   ELSE parted(operators[i], TrimAll(split(condition, operators[i])))
  IN decide(Least({i \in 1..Len(operators) :
                     /\ includes(condition, operators[i])
                     /\ Len(split(condition, operators[i])) = 2}))

\* applyWhereClause(data, whereClause)
applyWhereClause(data, whereClause) ==
  LET filter(conditions) ==
        LET keep(row) ==
              \A i \in 1..Len(conditions) : evaluateCondition(row, trim(conditions[i]))
        IN SelectSeq(data, keep)
  IN filter(splitAndOr(whereClause))

aggregationFunctions == <<"COUNT", "SUM", "AVG", "MIN", "MAX">>

\* isAggregationColumn(column)
isAggregationColumn(column) ==
  \/ \E i \in 1..Len(aggregationFunctions) :
       startsWith(toUpperCase(column), aggregationFunctions[i] \o "(") /\ endsWith(column, ")")
  \/ column = "COUNT(*)"

\* parseAggregationColumn(column); the expression is /^(\w+)\((.+)\)$/
parseAggregationColumn(column) ==
  LET call(w, inner) ==
        IF /\ w >= 1
           /\ OccursAt(column, w + 1, "(")
           /\ Len(column) >= w + 3
           /\ endsWith(column, ")")
           /\ DotRun(inner, 1) = Len(inner)
        THEN [t |-> "ok", functionName |-> toUpperCase(Substr(column, 1, w)),
              columnName |-> trim(inner)]
        ELSE Throw("Error", "Invalid aggregation syntax: " \o column)
      word(w) == call(w, Substr(column, w + 2, Len(column) - 1))
  IN IF column = "COUNT(*)" THEN [t |-> "ok", functionName |-> "COUNT", columnName |-> "*"]
     ELSE word(WordRun(column, 1))

\* parseFloat(val) || 0
parseIntOrZero(val) ==
  LET orZero(x) == IF x.t = "NaN" THEN IntNum(0) ELSE IntNum(x.n \div x.d)
  IN orZero(parseFloat(val))

parseFloatOrZero(val) ==
  LET orZero(x) == IF x.t = "NaN" THEN IntNum(0) ELSE x IN orZero(parseFloat(val))

\* values.reduce((sum, val) => sum + (parseFloat(val) || 0), 0)
RECURSIVE sumOf(_)
sumOf(values) ==
  IF Len(values) = 0 THEN IntNum(0)
  ELSE NumAdd(sumOf(SubSeq(values, 1, Len(values) - 1)), parseFloatOrZero(values[Len(values)]))

\* Math.min(...numbers) and Math.max(...numbers) of a non-empty list
minOf(numbers) ==
  numbers[CHOOSE i \in 1..Len(numbers) : \A j \in 1..Len(numbers) : ~NumLess(numbers[j], numbers[i])]

maxOf(numbers) ==
  numbers[CHOOSE i \in 1..Len(numbers) : \A j \in 1..Len(numbers) : ~NumLess(numbers[i], numbers[j])]

\* the values the aggregate is computed from: row[columnName] where it is neither
\* null nor undefined
aggregatedValues(groupRows, columnName) ==
  LET all == [i \in 1..Len(groupRows) |-> Get(groupRows[i], columnName)]
      present(val) == val.t # "null" /\ val.t # "undefined"
  IN SelectSeq(all, present)

\* calculateAggregation(groupRows, functionName, columnName)
calculateAggregation(groupRows, functionName, columnName) ==
  LET of(values) ==
        IF Len(values) = 0 THEN Null
        ELSE CASE functionName = "COUNT" ->
                    IF columnName = "*" THEN IntNum(Len(groupRows)) ELSE IntNum(Len(values))
               [] functionName = "SUM" -> sumOf(values)
               [] functionName = "AVG" -> NumDivInt(sumOf(values), Len(values))
               [] functionName = "MIN" ->
                    minOf([i \in 1..Len(values) |-> parseFloatOrZero(values[i])])
               [] functionName = "MAX" ->
                    maxOf([i \in 1..Len(values) |-> parseFloatOrZero(values[i])])
               [] OTHER -> Throw("Error", "Unsupported aggregation function: " \o functionName)
  IN of(aggregatedValues(groupRows, columnName))

\* String(row[col] || 'NULL') for each group column, joined by '|'
groupKeyOf(row, groupColumns) ==
  join([i \in 1..Len(groupColumns) |->
          LET v == Get(row, groupColumns[i]) IN IF Truthy(v) THEN JSString(v) ELSE "NULL"], "|")

\* the keys of the Map groups, in insertion order
RECURSIVE groupKeys(_, _)
groupKeys(data, groupColumns) ==
  IF Len(data) = 0 THEN <<>>
  ELSE LET add(keys, key) ==
             IF \E i \in 1..Len(keys) : keys[i] = key THEN keys ELSE Append(keys, key)
       IN add(groupKeys(SubSeq(data, 1, Len(data) - 1), groupColumns),
              groupKeyOf(data[Len(data)], groupColumns))

\* groupColumns.forEach((col, index) => groupedRow[col] = ...), from index i on
RECURSIVE addGroupColumns(_, _, _, _)
addGroupColumns(groupedRow, groupColumns, groupValues, i) ==
  IF i > Len(groupColumns) THEN groupedRow
  ELSE addGroupColumns(
         Put(groupedRow, groupColumns[i],
             IF i > Len(groupValues) THEN Undefined
             ELSE IF groupValues[i] = "NULL" THEN Null ELSE Str(groupValues[i])),
         groupColumns, groupValues, i + 1)

\* the value applyGroupBy stores for one select column
groupedValue(groupRows, groupColumns, trimmedCol) ==
  LET aggregate(parsed) ==
        IF IsThrow(parsed) THEN parsed
        ELSE calculateAggregation(groupRows, parsed.functionName, parsed.columnName)
  IN IF trimmedCol = "COUNT(*)" THEN IntNum(Len(groupRows))
     ELSE IF isAggregationColumn(trimmedCol) THEN aggregate(parseAggregationColumn(trimmedCol))
     ELSE Get(groupRows[1], trimmedCol)

\* columns.forEach(col => ...), from index i on; a throw ends it
RECURSIVE addSelectColumns(_, _, _, _, _)
addSelectColumns(groupedRow, groupRows, groupColumns, columns, i) ==
  LET store(trimmedCol, v) ==
        IF IsThrow(v) THEN v
        ELSE addSelectColumns(Put(groupedRow, trimmedCol, v), groupRows, groupColumns,
                              columns, i + 1)
      column(trimmedCol) ==
        store(trimmedCol, groupedValue(groupRows, groupColumns, trimmedCol))
  IN IF i > Len(columns) THEN [t |-> "ok", row |-> groupedRow]
     ELSE column(trim(columns[i]))

\* the row applyGroupBy builds for the group with the given key
groupedRowOf(data, columns, groupColumns, groupKey) ==
  LET inGroup(row) == groupKeyOf(row, groupColumns) = groupKey
      groupRows == SelectSeq(data, inGroup)
      start == addGroupColumns(<<>>, groupColumns, split(groupKey, "|"), 1)
  IN addSelectColumns(start, groupRows, groupColumns, columns, 1)

\* applyGroupBy(data, columns, groupByClause): the rows, or the exception thrown by
\* the first group that throws
applyGroupBy(data, columns, groupByClause) ==
  LET result(built, thrown) ==
        IF thrown = 0 THEN [t |-> "ok", rows |-> [i \in 1..Len(built) |-> built[i].row]]
        ELSE built[thrown]
      rows(built) == result(built, Least({i \in 1..Len(built) : IsThrow(built[i])}))
      groups(groupColumns, keys) ==
        rows([i \in 1..Len(keys) |-> groupedRowOf(data, columns, groupColumns, keys[i])])
      by(groupColumns) == groups(groupColumns, groupKeys(data, groupColumns))
  IN by(TrimAll(split(groupByClause, ",")))

\* The order of the characters in the root collation that localeCompare uses:
\* white space, punctuation and symbols, digits, then letters, a letter in lower
\* case directly before the same letter in upper case.
CollationOrder ==
  " _-,;:!?.'\"()[]{}@*/\\&#%^+<=>|~$0123456789aAbBcCdDeEfFgGhHiIjJkKlLmMnNoOpPqQrRsStTuUvVwWxXyYzZ"

\* the weights of the characters of a string: the primary weight of a letter is
\* the same in either case
PrimaryWeights(x) == [i \in 1..Len(x) |-> IndexIn(CollationOrder, toLowerCase(At(x, i)))]

TertiaryWeights(x) == [i \in 1..Len(x) |-> IndexIn(CollationOrder, At(x, i))]

\* the lexicographic comparison of two sequences of weights: -1, 0 or 1
RECURSIVE compareWeights(_, _)
compareWeights(u, v) ==
  IF Len(u) = 0 /\ Len(v) = 0 THEN 0
  ELSE IF Len(u) = 0 THEN -1
  ELSE IF Len(v) = 0 THEN 1
  ELSE IF u[1] < v[1] THEN -1
  ELSE IF u[1] > v[1] THEN 1
  ELSE compareWeights(Tail(u), Tail(v))

\* x.localeCompare(y): the letters decide first, their case only between strings
\* that are otherwise equal
localeCompare(x, y) ==
  LET decide(primary) ==
        IF primary # 0 THEN primary
        ELSE compareWeights(TertiaryWeights(x), TertiaryWeights(y))
  IN decide(compareWeights(PrimaryWeights(x), PrimaryWeights(y)))

\* orderPart.split(/\s+/)
RECURSIVE splitSpaces(_)
splitSpaces(s) ==
  LET cut(p) == IF p = 0 THEN <<s>>
                ELSE <<Substr(s, 1, p - 1)>> \o splitSpaces(Substr(s, p + SpaceRun(s, p), Len(s)))
  IN cut(Least({p \in 1..Len(s) : IsSpace(At(s, p))}))

\* aVal === bVal
StrictEquals(x, y) == x.t # "NaN" /\ x = y

\* the comparison the sort callback computes for one order part once the two
\* values differ
compareValues(aVal, bVal, direction) ==
  LET directed(comparison) ==
        IF direction.t = "string" /\ toLowerCase(direction.s) = "desc" THEN -comparison
        ELSE comparison
  IN directed(IF aVal.t = "string" THEN localeCompare(aVal.s, JSString(bVal))
              ELSE IF LessThan(aVal, bVal) THEN -1 ELSE 1)

\* the callback of data.sort in applyOrderBy, from order part i on
RECURSIVE compareRows(_, _, _, _)
compareRows(a, b, orderParts, i) ==
  LET compare(aVal, bVal, direction) ==
        IF StrictEquals(aVal, bVal) THEN compareRows(a, b, orderParts, i + 1)
        ELSE compareValues(aVal, bVal, direction)
      by(tokens) == compare(Get(a, tokens[1]), Get(b, tokens[1]),
                            IF Len(tokens) >= 2 THEN Str(tokens[2]) ELSE Undefined)
  IN IF i > Len(orderParts) THEN 0 ELSE by(splitSpaces(orderParts[i]))

\* The callback is a consistent comparison function for the rows of data (ECMA-262,
\* Array.prototype.sort): it orders them as a total preorder.
ConsistentComparator(data, orderParts) ==
  LET N == 1..Len(data)
      consistent(cmp) ==
        /\ \A i \in N : cmp[i][i] = 0
        /\ \A i, j \in N : (cmp[i][j] < 0) = (cmp[j][i] > 0)
        /\ \A i, j \in N : (cmp[i][j] = 0) = (cmp[j][i] = 0)
        /\ \A i, j, k \in N : cmp[i][j] <= 0 /\ cmp[j][k] <= 0 => cmp[i][k] <= 0
        /\ \A i, j, k \in N : cmp[i][j] = 0 /\ cmp[j][k] = 0 => cmp[i][k] = 0
  IN consistent([i \in N |-> [j \in N |-> compareRows(data[i], data[j], orderParts, 1)]])

\* the stable sort of data: each row is put behind the already sorted rows that do
\* not come after it
RECURSIVE stableSort(_, _)
stableSort(data, orderParts) ==
  LET put(sorted, x, k) == SubSeq(sorted, 1, k) \o <<x>> \o SubSeq(sorted, k + 1, Len(sorted))
      insert(sorted, x) ==
        put(sorted, x,
            Greatest({i \in 1..Len(sorted) : compareRows(sorted[i], x, orderParts, 1) <= 0}))
  IN IF Len(data) <= 1 THEN data
     ELSE insert(stableSort(SubSeq(data, 1, Len(data) - 1), orderParts), data[Len(data)])

IndexPermutations(n) == {p \in [1..n -> 1..n] : \A i, j \in 1..n : p[i] = p[j] => i = j}

\* data.sort(callback): Array.prototype.sort is stable; when the callback is not a
\* consistent comparison function the order of the result is implementation-defined,
\* so every arrangement of the rows is a possible result.
sortResults(data, orderParts) ==
  IF ConsistentComparator(data, orderParts) THEN {stableSort(data, orderParts)}
  ELSE {[i \in 1..Len(data) |-> data[p[i]]] : p \in IndexPermutations(Len(data))}

\* applyOrderBy(data, orderClause): the possible results
applyOrderBy(data, orderClause) == sortResults(data, TrimAll(split(orderClause, ",")))

(***************************************************************************)
(* csvLoader.ts: the catalog, the fallback sample data and the provider.   *)
(***************************************************************************)
CSV_ENDPOINTS ==
  [k \in {"customers", "employees", "orders", "order_details", "products", "categories",
          "suppliers", "territories", "regions", "shippers", "employee_territories"} |->
     Str("/api/csv/" \o k)]

\* getAvailableTables(): Object.keys(CSV_ENDPOINTS)
getAvailableTables ==
  <<"customers", "employees", "orders", "order_details", "products", "categories",
    "suppliers", "territories", "regions", "shippers", "employee_territories">>

\* an array value
Arr(rows) == [t |-> "array", rows |-> rows]

\* The rows of sampleData.  Of customers and employees only the columns below are
\* kept (the others hold street addresses and phone numbers no query of the model
\* reads).
sampleData ==
  [k \in {"customers", "products", "employees"} |->
     CASE k = "customers" ->
            Arr(<< [customerID |-> Str("ALFKI"), companyName |-> Str("Alfreds Futterkiste"),
             contactName |-> Str("Maria Anders"), contactTitle |-> Str("Sales Representative"),
             region |-> Null, postalCode |-> Str("12209"), country |-> Str("Germany")],
            [customerID |-> Str("ANATR"), companyName |-> Str("Ana Trujillo Emparedados y helados"),
             contactName |-> Str("Ana Trujillo"), contactTitle |-> Str("Owner"),
             region |-> Null, postalCode |-> Str("05021"), country |-> Str("Mexico")] >>)
       [] k = "products" ->
            Arr(<< [productID |-> IntNum(1), productName |-> Str("Chai"), supplierID |-> IntNum(1),
             categoryID |-> IntNum(1), quantityPerUnit |-> Str("10 boxes x 20 bags"),
             unitPrice |-> IntNum(18), unitsInStock |-> IntNum(39), unitsOnOrder |-> IntNum(0),
             reorderLevel |-> IntNum(10), discontinued |-> Bool(FALSE)],
            [productID |-> IntNum(2), productName |-> Str("Chang"), supplierID |-> IntNum(1),
             categoryID |-> IntNum(1), quantityPerUnit |-> Str("24 - 12 oz bottles"),
             unitPrice |-> IntNum(19), unitsInStock |-> IntNum(17), unitsOnOrder |-> IntNum(40),
             reorderLevel |-> IntNum(25), discontinued |-> Bool(FALSE)] >>)
       [] k = "employees" ->
            Arr(<< [employeeID |-> IntNum(1), lastName |-> Str("Davolio"), firstName |-> Str("Nancy"),
             title |-> Str("Sales Representative"), titleOfCourtesy |-> Str("Ms."),
             birthDate |-> Str("1948-12-08"), hireDate |-> Str("1992-05-01"),
             region |-> Str("WA"), postalCode |-> Str("98122"), country |-> Str("USA"),
             extension |-> Str("5467")] >>)]

\* getSampleData(tableName): sampleData[tableName] || []
getSampleData(tableName) ==
  LET orEmpty(found) == IF found.t = "undefined" THEN Arr(<<>>) ELSE found
  IN orEmpty(Get(sampleData, tableName))

\* A Map is kept as the sequence of its entries, in the order in which the keys
\* were first set: the place of key among the entries, 0 when the Map has no such
\* key
MapIndex(map, key) == Least({i \in 1..Len(map) : map[i].key = key})

\* map.has(key)
Has(map, key) == MapIndex(map, key) > 0

\* map.get(key), for a key the Map has
MapGet(map, key) == map[MapIndex(map, key)].value

MapSetAppends(map, key, value) == Append(map, [key |-> key, value |-> value])

\* map.set(key, value): the value of an entry is replaced where it stands, a new
\* key goes to the end
MapSet(map, key, value) ==
  IF Has(map, key) THEN [map EXCEPT ![MapIndex(map, key)].value = value]
  ELSE Append(map, [key |-> key, value |-> value])

\* value.length of an array, of a function and of any other object
LengthOf(value) ==
  CASE value.t = "array" -> IntNum(Len(value.rows))
    [] value.t = "function" -> IntNum(value.length)
    [] OTHER -> Undefined

(***************************************************************************)
(* handleSelectQuery after the table is loaded.  A run is the outcome of a *)
(* call (the rows returned or the error thrown) together with the values   *)
(* the local variable result takes, one per stage that ran.  Each value is *)
(* an array: the array tableData that was loaded, or a new array, named    *)
(* after the stage that made it.                                           *)
(***************************************************************************)
Rows(rows) == [kind |-> "rows", rows |-> rows]

Failure(name, message) == [kind |-> "error", name |-> name, message |-> message]

Stage(name, array, rows) == [stage |-> name, array |-> array, rows |-> rows]

\* the array the variable result holds after the stages
arrayOf(stages) == stages[Len(stages)].array

\* columns.forEach(col => { if (row.hasOwnProperty(col)) selectedRow[col] = row[col] })
selectColumns(row, columns) ==
  [col \in {columns[i] : i \in 1..Len(columns)} \cap DOMAIN row |-> row[col]]

sliceOneMore(result, limit) ==
  SubSeq(result, 1, IF limit + 1 < Len(result) THEN limit + 1 ELSE Len(result))

\* result.slice(0, limit)
slice(result, limit) == SubSeq(result, 1, IF limit < Len(result) THEN limit ELSE Len(result))

projectAlways(m, columns, result, stages) ==
  LET return(projected) ==
        [outcome |-> Rows(projected), stages |-> Append(stages, Stage("project", "projected", projected))]
  IN IF ~m.groupByMatch.found
     THEN return([i \in 1..Len(result) |-> selectColumns(result[i], columns)])
     ELSE [outcome |-> Rows(result), stages |-> stages]

\* lines 76-87: the projection and the return, after the LIMIT stage
projectStage(m, columns, result, stages) ==
  LET return(projected) ==
        [outcome |-> Rows(projected), stages |-> Append(stages, Stage("project", "projected", projected))]
  IN IF ~m.groupByMatch.found /\ columns[1] # "*"
     THEN return([i \in 1..Len(result) |-> selectColumns(result[i], columns)])
     ELSE [outcome |-> Rows(result), stages |-> stages]

\* lines 69-74: LIMIT
limitStage(m, columns, result, stages) ==
  LET then(limited) ==
        projectStage(m, columns, limited,
                     IF m.limitMatch.found THEN Append(stages, Stage("limit", "limited", limited))
                     ELSE stages)
  IN then(IF m.limitMatch.found THEN slice(result, parseInt(m.limitMatch.g1)) ELSE result)

\* lines 63-67: ORDER BY; one run for each result the sort can give.  data.sort
\* the ORDER BY stage, were it to run on what LIMIT left
orderStageAfterLimit(m, columns, result, stages) ==
  LET limited == IF m.limitMatch.found THEN slice(result, parseInt(m.limitMatch.g1)) ELSE result
      cut == IF m.limitMatch.found THEN Append(stages, Stage("limit", "limited", limited))
             ELSE stages
  IN {projectStage(m, columns, sorted,
                   IF m.orderMatch.found
                   THEN Append(cut, Stage("order", arrayOf(cut), sorted)) ELSE cut) :
        sorted \in IF m.orderMatch.found THEN applyOrderBy(limited, m.orderMatch.g1)
                   ELSE {limited}}

\* sorts the array it is given and returns that array
orderStage(m, columns, result, stages) ==
  {limitStage(m, columns, sorted,
              IF m.orderMatch.found
              THEN Append(stages, Stage("order", arrayOf(stages), sorted)) ELSE stages) :
     sorted \in IF m.orderMatch.found THEN applyOrderBy(result, m.orderMatch.g1) ELSE {result}}

groupStageGoesOn(m, columns, result, stages) ==
  LET then(grouped) ==
        orderStage(m, columns, IF IsThrow(grouped) THEN result ELSE grouped.rows,
                   IF m.groupByMatch.found /\ ~IsThrow(grouped)
                   THEN Append(stages, Stage("group", "grouped", grouped.rows))
                   ELSE stages)
  IN then(IF m.groupByMatch.found THEN applyGroupBy(result, columns, m.groupByMatch.g1)
          ELSE [t |-> "ok", rows |-> result])

\* lines 57-61: GROUP BY
groupStage(m, columns, result, stages) ==
  LET then(grouped) ==
        IF IsThrow(grouped)
        THEN {[outcome |-> Failure(grouped.name, grouped.message), stages |-> stages]}
        ELSE orderStage(m, columns, grouped.rows,
                        IF m.groupByMatch.found
                        THEN Append(stages, Stage("group", "grouped", grouped.rows))
                        ELSE stages)
  IN then(IF m.groupByMatch.found THEN applyGroupBy(result, columns, m.groupByMatch.g1)
          ELSE [t |-> "ok", rows |-> result])

\* lines 51-55: WHERE
whereStage(m, columns, result, stages) ==
  LET then(filtered) ==
        groupStage(m, columns, filtered,
                   IF m.whereMatch.found
                   THEN Append(stages, Stage("where", "filtered", filtered))
                   ELSE stages)
  IN then(IF m.whereMatch.found THEN applyWhereClause(result, m.whereMatch.g1) ELSE result)

sameArray(tableData) == <<Stage("load", "tableData", tableData.rows)>>

\* let result = [...tableData]: a new array of the rows of tableData
spread(tableData) == <<Stage("load", "result", tableData.rows)>>

\* handleSelectQuery from line 45 on: the possible runs on the loaded tableData; m
\* holds the clause matches of the query
handleSelectQuery(m, columns, tableName, tableData) ==
  IF LengthOf(tableData) = IntNum(0)
  THEN {[outcome |-> Failure("Error", "Table '" \o tableName \o "' not found or empty"),
         stages |-> <<>>]}
  ELSE IF tableData.t # "array"
  THEN {[outcome |-> Failure("TypeError", "tableData is not iterable"), stages |-> <<>>]}
  ELSE whereStage(m, columns, tableData.rows, spread(tableData))

\* isTableQuery(query)
isTableQuery(query) ==
  \E i \in 1..Len(getAvailableTables) :
    toLowerCase(trim(query)) = toLowerCase(getAvailableTables[i])

\* getTableData(query): the name the catalog has for the table
actualTableName(query) ==
  getAvailableTables[Least({i \in 1..Len(getAvailableTables) :
                              toLowerCase(getAvailableTables[i]) = toLowerCase(trim(query))})]

\* what executeQuery does before it loads a table: the form of the query, and for
\* a SELECT the column list and the table name
parseQuery(query) ==
  LET select(m) ==
        IF ~m.found THEN [form |-> "invalid", message |-> "Invalid SELECT syntax"]
        ELSE [form |-> "select", columns |-> TrimAll(split(m.g1, ",")),
              tableName |-> trim(m.g2)]
  IN IF startsWith(toLowerCase(trim(query)), "select") THEN select(selectMatch(query))
     ELSE IF isTableQuery(query)
     THEN [form |-> "table", columns |-> <<"*">>, tableName |-> actualTableName(query)]
     ELSE [form |-> "invalid", message |-> "Unsupported query type"]

\* the array tableData after a run: as it was, unless a stage sorted it
tableDataAfter(stages, tableData) ==
  LET sorted(i) == IF i = 0 THEN tableData ELSE Arr(stages[i].rows)
  IN sorted(Least({i \in 1..Len(stages) :
                     stages[i].stage = "order" /\ stages[i].array = "tableData"}))

\* the possible runs of a call once its table is loaded
runsOf(form, m, columns, tableName, tableData) ==
  IF form = "table" THEN {[outcome |-> Rows(tableData.rows), stages |-> <<>>]}
  ELSE handleSelectQuery(m, columns, tableName, tableData)

(***************************************************************************)
(* The inputs of the model.                                                *)
(***************************************************************************)
\* a line of products.csv as PapaParse gives it with header: true: every field is
\* a string; a line with fewer fields than the header gives a row without the
\* missing columns
csvRowsAt(id) ==
  {[productID |-> Str(IntToStr(id)), categoryID |-> Str(c[1]), unitPrice |-> Str(c[2])] :
     c \in {<<"1", "18">>, <<"1", "19">>, <<"2", "18">>}}
  \cup {[productID |-> Str(IntToStr(id))]}

\* the tables of 1..MaxRows rows, the row at each place taken from rowsAt
tablesOf(rowsAt(_)) ==
  UNION {{t \in [1..n -> UNION {rowsAt(id) : id \in 1..n}] : \A id \in 1..n : t[id] \in rowsAt(id)} :
           n \in 1..MaxRows}

\* the files of the server: products.csv varies, customers.csv has one line, the
\* other files have a header line only
filesWith(products) ==
  [k \in DOMAIN CSV_ENDPOINTS |->
     IF k = "products" THEN products
     ELSE IF k = "customers"
     THEN <<[customerID |-> Str("ALFKI"), region |-> Str(""), country |-> Str("Germany")]>>
     ELSE <<>>]

\* what PapaParse makes of the page the server sends for a path that is not an API
\* route: nothing when the page is a single line, otherwise rows keyed by its first
\* line
pageTables == {<<>>, <<[html |-> Str("<head>")]>>}

\* products.csv has up to MaxRows lines
QueryTables == {filesWith(t) : t \in {<<>>} \cup tablesOf(csvRowsAt)}

EngineTables ==
  {filesWith(<<>>), filesWith(<<[productID |-> Str("1"), categoryID |-> Str("2"), unitPrice |-> Str("19")],
               [productID |-> Str("2"), categoryID |-> Str("1"), unitPrice |-> Str("18")]>>)}

\* the queries of the engine specification
EngineQueries ==
  {"SELECT * FROM products",
   "products",
   "SELECT * FROM nonexistent",
   "SELECT * FROM products ORDER BY unitPrice LIMIT 1",
   "DESCRIBE products"}

someTables == {"products", "customers", "orders", "nonexistent", "constructor", "toString"}

someColumns == {"categoryID", "unitPrice", "productID"}

someLiterals == {"18", "19", "1"}

selectStarQuery(T) == "SELECT * FROM " \o T

whereEqualsQuery(c, v) == "SELECT * FROM products WHERE " \o c \o " = " \o v

countByQuery(g) == "SELECT " \o g \o ", COUNT(*) FROM products GROUP BY " \o g

limits == {0, 1, 2, 1000}

beforeLimit ==
  {"", " WHERE unitPrice = 18", " ORDER BY unitPrice DESC", " GROUP BY categoryID"}

limitQuery(mid, n) == "SELECT * FROM products" \o mid \o " LIMIT " \o IntToStr(n)

otherQueries ==
  {"SELECT FOO(unitPrice) FROM products GROUP BY categoryID",
   "SELECT FOO(unitPrice) FROM products GROUP BY categoryID ",
   "SELECT categoryID, COUNT(*) FROM products GROUP BY categoryID ",
   "SELECT * FROM products WHERE unitPrice = 18 ",
   "SELECT productID FROM products",
   "select * from products",
   "SELECT SUM() FROM products GROUP BY categoryID",
   "SELECT SUM() FROM products WHERE unitPrice = 18 GROUP BY categoryID LIMIT 1",
   "SELECT * FROM"}

badLimitQueries == {"SELECT * FROM products LIMIT -5", "SELECT * FROM products LIMIT abc"}

\* column lists: a column that a short row lacks, a column no row has, and lists
\* that hold * next to a column
projectionQueries ==
  {"SELECT productID, unitPrice FROM products",
   "SELECT unitPrice, nope FROM products",
   "SELECT *, productID FROM products",
   "SELECT productID, * FROM products"}

\* queries with several clauses, one of them with the clauses written in
\* another order
stageOrderQueries ==
  {"SELECT productID FROM products WHERE categoryID = 1 ORDER BY unitPrice DESC LIMIT 1",
   "SELECT COUNT(*) FROM products WHERE unitPrice = 18 GROUP BY categoryID LIMIT 1",
   "SELECT productID FROM products LIMIT 1 ORDER BY unitPrice DESC"}

\* the queries of the query specification
Queries ==
  {selectStarQuery(T) : T \in someTables}
    \cup {whereEqualsQuery(c, v) : c \in someColumns, v \in someLiterals}
    \cup {countByQuery(g) : g \in someColumns}
    \cup {limitQuery(mid, n) : mid \in beforeLimit, n \in limits}
    \cup otherQueries
    \cup someTables
    \cup badLimitQueries
    \cup projectionQueries
    \cup stageOrderQueries

\* the rows a stage is applied to on its own, as a provider hands them over: the
\* typed rows of the sample data (numbers and null), or the rows of a parsed file
\* (strings, and no unitPrice where the line is short); productID is the place of
\* the row
sampleRowsAt(id) ==
  {[productID |-> IntNum(id), categoryID |-> c, unitPrice |-> u] :
     c \in {IntNum(1), IntNum(2)}, u \in {IntNum(18), Num(37, 2), Null}}

parsedRowsAt(id) ==
  {[productID |-> Str(IntToStr(id)), categoryID |-> c, unitPrice |-> u] :
     c \in {Str("1"), Str("2")}, u \in {Str("unknown"), Str("zz")}}
  \cup {[productID |-> Str(IntToStr(id)), categoryID |-> c] : c \in {Str("1"), Str("2")}}

\* rows whose categoryID is null, missing, or a value that is not true in a
\* condition or is spelled like the key of null
groupRowsAt(id) ==
  {[productID |-> IntNum(id), categoryID |-> c] :
     c \in {Null, IntNum(0), IntNum(1), Str(""), Str("NULL"), Str("1")}}
  \cup {[productID |-> IntNum(id)]}

stageTables == tablesOf(sampleRowsAt) \cup tablesOf(parsedRowsAt) \cup tablesOf(groupRowsAt)

groupColumnLists ==
  {<<"categoryID", "COUNT(*)">>, <<"COUNT(*)">>, <<"categoryID", "count(*)">>}

orderClauses == {"unitPrice ASC", "unitPrice ASC, categoryID DESC"}

whereClauses ==
  {"unitPrice >= 18", "unitPrice <= 18", "unitPrice != 18",
   "unitPrice > -1", "unitPrice < 0",
   "categoryID = 1 and unitPrice = 18", "categoryID = 1 or unitPrice = 18",
   "categoryID = 1 AND unitPrice > 18 OR productID = 1"}

\* The parse of each query of the model and its clause matches, computed once.
parsedQueries == [query \in EngineQueries \cup Queries |-> parseQuery(query)]

\* the four clause matches of handleSelectQuery (lines 52, 58, 64 and 70)
matchedClauses ==
  [query \in EngineQueries \cup Queries |->
     [whereMatch |-> whereMatch(query), groupByMatch |-> groupByMatch(query),
      orderMatch |-> orderMatch(query), limitMatch |-> limitMatch(query)]]

(***************************************************************************)
(* The state.                                                              *)
(***************************************************************************)
VARIABLES
  files,      \* the CSV files of the server, as the rows a fetch of each parses to
  csvCache,   \* csvLoader.ts: csvCache
  dataCache,  \* SimpleSQLEngine.dataCache
  calls,      \* the executeQuery calls, one caller each: where the call stands, its
              \* local variables, how often it has called the provider (loads), and
              \* what the caller has seen (the outcome of its
              \* latest finished call, if the cache was not cleared since) and saw
              \* last when it made this call with the same query
  args,       \* the argument of a stage applied on its own
  returned,   \* what that stage returned
  queryHistory,  \* App.tsx: the state queryHistory
  now,        \* Date.now(): the clock, which has moved on whenever it is read again
  tab,        \* QueryTab.tsx: the states isLoading, error and queryResult of the tab
  executions, \* every execution the tab has finished, oldest first: when it ended,
              \* the query and the outcome
  tabs,       \* App.tsx: the state tabs
  activeTab,  \* App.tsx: the state activeTab
  cleared     \* clearCache() has run, and no executeQuery call was started since

appVars == <<queryHistory, now, tab, executions, tabs, activeTab>>

vars == <<files, csvCache, dataCache, calls, args, returned, queryHistory, now, tab,
          executions, tabs, activeTab, cleared>>

Calls == 1..MaxCalls

idle ==
  [pc |-> "idle", query |-> "", form |-> "", columns |-> <<>>, tableName |-> "",
   loads |-> 0, tableData |-> Undefined, stages |-> <<>>, outcome |-> Undefined,
   seen |-> Undefined, previous |-> Undefined]

nothing == [fn |-> ""]

\* the application before any query is executed
AppStart ==
  /\ queryHistory = <<>>
  /\ now = 0
  /\ tab = [isLoading |-> FALSE, error |-> Null, queryResult |-> <<>>]
  /\ executions = <<>>
  /\ tabs = <<[id |-> "1", title |-> "Query 1", query |-> ""]>>
  /\ activeTab = "1"

Init ==
  /\ files \in EngineTables
  /\ csvCache = <<>>
  /\ dataCache = <<>>
  /\ calls = [c \in Calls |-> idle]
  /\ args = <<>>
  /\ returned = nothing
  /\ cleared = FALSE
  /\ AppStart

\* the call c returns or throws: one of the runs on the loaded tableData, which
\* sqlEngine.ts loadTableData has put in dataCache (line 122).  The caches hold the
\* array itself, so they see what the run did to it; provided is csvCache as the
\* provider left it.
Finish(c, query, parsed, previous, loads, tableData, provided) ==
  \E run \in runsOf(parsed.form, matchedClauses[query], parsed.columns, parsed.tableName,
                    tableData) :
    /\ calls' = [calls EXCEPT ![c] =
                   [pc |-> "done", query |-> query, form |-> parsed.form,
                    columns |-> parsed.columns, tableName |-> parsed.tableName,
                    loads |-> loads, tableData |-> tableData, stages |-> run.stages,
                    outcome |-> run.outcome, seen |-> run.outcome,
                    previous |-> previous]]
    /\ dataCache' = MapSet(dataCache, parsed.tableName, tableDataAfter(run.stages, tableData))
    /\ csvCache' = IF Has(provided, parsed.tableName)
                      /\ MapGet(provided, parsed.tableName) = tableData
                   THEN MapSet(provided, parsed.tableName,
                               tableDataAfter(run.stages, tableData))
                   ELSE provided

\* what the caller c saw when it last made the call with this query
sawLast(c, query) == IF calls[c].query = query THEN calls[c].seen ELSE Undefined

\* the calls of the provider that loadTableData makes (sqlEngine.ts lines 114-119):
\* none when dataCache has the table, one otherwise
providerCalls(tableName) == IF Has(dataCache, tableName) THEN 0 ELSE 1

\* what loadTableData returns without waiting: the entry of dataCache (sqlEngine.ts
\* line 114), of csvCache (csvLoader.ts line 59), or the sample data (line 66)
provide(tableName) ==
  IF Has(dataCache, tableName) THEN MapGet(dataCache, tableName)
  ELSE IF Has(csvCache, tableName) THEN MapGet(csvCache, tableName)
  ELSE getSampleData(tableName)

\* executeQuery(query) up to the first point where it waits for the network:
\* sqlEngine.ts executeQuery, handleSelectQuery / getTableData, loadTableData and
\* csvLoader.ts loadTableData up to fetch
executeQuery(c, query) ==
  /\ calls[c].pc = "idle"
  /\ cleared' = FALSE
  /\ UNCHANGED <<files, args, returned>>
  /\ IF parsedQueries[query].form = "invalid"
     THEN /\ calls' = [calls EXCEPT ![c] =
                         [idle EXCEPT !.pc = "done", !.query = query, !.form = "invalid",
                                      !.outcome = Failure("Error", parsedQueries[query].message),
                                      !.seen = Failure("Error", parsedQueries[query].message),
                                      !.previous = sawLast(c, query)]]
          /\ UNCHANGED <<dataCache, csvCache>>
     ELSE IF \/ Has(dataCache, parsedQueries[query].tableName)
             \/ Has(csvCache, parsedQueries[query].tableName)
             \/ ~Truthy(Get(CSV_ENDPOINTS, parsedQueries[query].tableName))
     THEN Finish(c, query, parsedQueries[query], sawLast(c, query),
                 providerCalls(parsedQueries[query].tableName),
                 provide(parsedQueries[query].tableName), csvCache)
     ELSE /\ calls' = [calls EXCEPT ![c] =
                         [idle EXCEPT !.pc = "fetching", !.query = query,
                                      !.form = parsedQueries[query].form,
                                      !.columns = parsedQueries[query].columns,
                                      !.tableName = parsedQueries[query].tableName,
                                      !.loads = providerCalls(parsedQueries[query].tableName),
                                      !.previous = sawLast(c, query)]]
          /\ UNCHANGED <<dataCache, csvCache>>

\* executeQuery(query), called on the engine alone
ExecuteQuery(c, query) == executeQuery(c, query) /\ UNCHANGED appVars

\* the rows a successful fetch of the endpoint of tableName parses to
parsedTables(tableName) ==
  IF tableName \in DOMAIN CSV_ENDPOINTS THEN {files[tableName]} ELSE pageTables

\* The fetch of call c ends.  csvLoader.ts loadTableData from line 69 on: a response
\* that is ok is parsed and cached, anything else is answered with the sample data;
\* then sqlEngine.ts loadTableData caches what it got and the query runs.
fetchSettles(c, ok) ==
  /\ calls[c].pc = "fetching"
  /\ UNCHANGED <<files, args, returned, cleared>>
  /\ \E parsedData \in parsedTables(calls[c].tableName) :
       Finish(c, calls[c].query, calls[c], calls[c].previous, calls[c].loads,
              IF ok THEN Arr(parsedData) ELSE getSampleData(calls[c].tableName),
              IF ok THEN MapSet(csvCache, calls[c].tableName, Arr(parsedData)) ELSE csvCache)

FetchComplete(c, ok) == fetchSettles(c, ok) /\ UNCHANGED appVars

\* the caller takes the result of a finished call
return(c) ==
  /\ calls[c].pc = "done"
  /\ calls' = [calls EXCEPT ![c] = [idle EXCEPT !.query = calls[c].query,
                                                 !.seen = calls[c].seen]]
  /\ UNCHANGED <<files, csvCache, dataCache, args, returned, cleared>>

Return(c) == return(c) /\ UNCHANGED appVars

\* getCacheStats()
getCacheStats ==
  [size |-> Len(dataCache), tables |-> [i \in 1..Len(dataCache) |-> dataCache[i].key]]

\* clearCache()
ClearCache ==
  /\ dataCache' = <<>>
  /\ cleared' = TRUE
  /\ calls' = [c \in Calls |-> [calls[c] EXCEPT !.seen = Undefined,
                                                  !.previous = Undefined]]
  /\ UNCHANGED <<files, csvCache, args, returned>>
  /\ UNCHANGED appVars

Next ==
  \/ \E c \in Calls, query \in EngineQueries : ExecuteQuery(c, query)
  \/ \E c \in Calls, ok \in BOOLEAN : FetchComplete(c, ok)
  \/ \E c \in Calls : Return(c)
  \/ ClearCache

Spec == Init /\ [][Next]_vars

(***************************************************************************)
(* The query specification: one call, on every content of products.csv up  *)
(* to MaxRows lines, of every query of Queries.                            *)
(***************************************************************************)
QueryInit ==
  /\ files \in QueryTables
  /\ csvCache = <<>>
  /\ dataCache = <<>>
  /\ calls = [c \in Calls |-> idle]
  /\ args = <<>>
  /\ returned = nothing
  /\ cleared = FALSE
  /\ AppStart

QueryNext ==
  \/ \E query \in Queries : ExecuteQuery(1, query)
  \/ \E ok \in BOOLEAN : FetchComplete(1, ok)

QuerySpec == QueryInit /\ [][QueryNext]_vars
(***************************************************************************)
(* The stage specification: calculateAggregation and applyOrderBy applied  *)
(* on their own to every table of stageTables.                             *)
(***************************************************************************)
StageInit ==
  /\ files = filesWith(<<>>)
  /\ csvCache = <<>>
  /\ dataCache = <<>>
  /\ calls = [c \in Calls |-> idle]
  /\ args \in stageTables
  /\ returned = nothing
  /\ cleared = FALSE
  /\ AppStart

\* calculateAggregation(args, functionName, columnName)
CalculateAggregation(functionName, columnName) ==
  /\ returned = nothing
  /\ returned' = [fn |-> "calculateAggregation", functionName |-> functionName,
                  columnName |-> columnName,
                  value |-> calculateAggregation(args, functionName, columnName)]
  /\ UNCHANGED <<files, csvCache, dataCache, calls, args, cleared>>
  /\ UNCHANGED appVars

\* applyOrderBy(args, orderClause)
ApplyOrderBy(orderClause) ==
  /\ returned = nothing
  /\ \E sorted \in applyOrderBy(args, orderClause) :
       returned' = [fn |-> "applyOrderBy", orderClause |-> orderClause, value |-> sorted]
  /\ UNCHANGED <<files, csvCache, dataCache, calls, args, cleared>>
  /\ UNCHANGED appVars

\* applyWhereClause(args, whereClause)
ApplyWhereClause(whereClause) ==
  /\ returned = nothing
  /\ returned' = [fn |-> "applyWhereClause", whereClause |-> whereClause,
                  value |-> applyWhereClause(args, whereClause)]
  /\ UNCHANGED <<files, csvCache, dataCache, calls, args, cleared>>
  /\ UNCHANGED appVars

\* applyGroupBy(args, columns, groupByClause)
ApplyGroupBy(columns, groupByClause) ==
  /\ returned = nothing
  /\ returned' = [fn |-> "applyGroupBy", columns |-> columns,
                  groupByClause |-> groupByClause,
                  value |-> applyGroupBy(args, columns, groupByClause)]
  /\ UNCHANGED <<files, csvCache, dataCache, calls, args, cleared>>
  /\ UNCHANGED appVars

StageNext ==
  \/ \E i \in 1..Len(aggregationFunctions) :
       CalculateAggregation(aggregationFunctions[i], "unitPrice")
  \/ \E orderClause \in orderClauses : ApplyOrderBy(orderClause)
  \/ \E whereClause \in whereClauses : ApplyWhereClause(whereClause)
  \/ \E columns \in groupColumnLists : ApplyGroupBy(columns, "categoryID")

StageSpec == StageInit /\ [][StageNext]_vars

(***************************************************************************)
(* The application specification: one query tab of the application and its *)
(* engine.  The user clicks Execute with one of the queries of AppQueries, *)
(* up to MaxExecutions times; the button is disabled while a query runs.    *)
(***************************************************************************)
AppQueries == {"products", "DESCRIBE products", "  "}

\* App.tsx addToHistory(query, result): the new value of queryHistory, given prev
addToHistoryKeepsAll(prev, query, result) ==
  <<[id |-> IntToStr(now), query |-> query, result |-> result, timestamp |-> now]>> \o prev

addToHistory(prev, query, result) ==
  <<[id |-> IntToStr(now), query |-> query, result |-> result, timestamp |-> now]>>
    \o slice(prev, 9)

\* QueryTab.tsx executeQuery up to the await of sqlEngine.executeQuery (lines 87-103)
TabExecuteQuery(query) ==
  /\ ~tab.isLoading
  /\ Len(executions) < MaxExecutions
  /\ IF trim(query) = "" THEN UNCHANGED vars
     ELSE /\ tab' = [isLoading |-> TRUE, error |-> Null, queryResult |-> <<>>]
          /\ executeQuery(1, query)
          /\ UNCHANGED <<queryHistory, now, executions, tabs, activeTab>>

\* QueryTab.tsx executeQuery after the await (lines 104-125): the result is shown and
\* handed to onQueryExecute, which is addToHistory (App.tsx 239), or the error is
\* shown
QueryExecuted ==
  /\ tab.isLoading
  /\ return(1)
  /\ now' = now + 1
  /\ executions' = Append(executions, [at |-> now, query |-> calls[1].query,
                                        outcome |-> calls[1].outcome])
  /\ IF calls[1].outcome.kind = "rows"
     THEN /\ tab' = [tab EXCEPT !.isLoading = FALSE, !.queryResult = calls[1].outcome.rows]
          /\ queryHistory' = addToHistory(queryHistory, calls[1].query,
                                          calls[1].outcome.rows)
     ELSE /\ tab' = [tab EXCEPT !.isLoading = FALSE,
                                !.error = Str(calls[1].outcome.message)]
          /\ UNCHANGED queryHistory
  /\ UNCHANGED <<tabs, activeTab>>

AppNext ==
  \/ \E query \in AppQueries : TabExecuteQuery(query)
  \/ \E ok \in BOOLEAN : FetchComplete(1, ok)
  \/ QueryExecuted

AppSpec == Init /\ [][AppNext]_vars
(***************************************************************************)
(* The tabs of the application (App.tsx).                                  *)
(***************************************************************************)
\* Date.now().toString(): the clock counts the milliseconds since 1700000000000
dateString(ms) == "170000000000" \o IntToStr(ms)

dateNowString == dateString(now)

\* the ids a tab can have: that of the first tab, and those the clock gives
TabIds == {"1"} \cup {dateString(ms) : ms \in 0..MaxClock}

\* tabs.filter(tab => tab.id !== tabId)
withoutTab(tabId) == LET others(t) == t.id # tabId IN SelectSeq(tabs, others)

\* App.tsx removeTab (lines 60-78).  With the last tab the toast is shown and
\* nothing is set.  When no tab is left after the filter, newTabs[0].id throws a
\* TypeError after setTabs(newTabs) was called: the new tab list is kept and
\* activeTab is not set.
removeTab(tabId) ==
  IF Len(tabs) = 1 THEN UNCHANGED <<tabs, activeTab>>
  ELSE /\ tabs' = withoutTab(tabId)
       /\ activeTab' = IF activeTab = tabId /\ withoutTab(tabId) # <<>>
                       THEN withoutTab(tabId)[1].id ELSE activeTab

\* App.tsx addTab (lines 50-58)
AddTab ==
  /\ Len(tabs) < MaxTabs
  /\ tabs' = Append(tabs, [id |-> dateNowString,
                           title |-> "Query " \o IntToStr(Len(tabs) + 1), query |-> ""])
  /\ activeTab' = dateNowString
  /\ UNCHANGED <<files, csvCache, dataCache, calls, args, returned, queryHistory, now, tab,
                 executions, cleared>>

\* the close button of a tab of the list (lines 205-218, 277-288)
RemoveTab(tabId) ==
  /\ \E i \in 1..Len(tabs) : tabs[i].id = tabId
  /\ removeTab(tabId)
  /\ UNCHANGED <<files, csvCache, dataCache, calls, args, returned, queryHistory, now, tab,
                 executions, cleared>>

\* a millisecond passes
Tick ==
  /\ now < MaxClock
  /\ now' = now + 1
  /\ UNCHANGED <<files, csvCache, dataCache, calls, args, returned, queryHistory, tab,
                 executions, tabs, activeTab, cleared>>

TabNext ==
  \/ AddTab
  \/ \E tabId \in TabIds : RemoveTab(tabId)
  \/ Tick

TabSpec == Init /\ [][TabNext]_vars
(***************************************************************************)
(* Properties of a call of executeQuery, under QuerySpec.                  *)
(***************************************************************************)
\* the call has returned and the provider gave it a table of at least one row
loaded(c) ==
  /\ calls[c].pc = "done"
  /\ calls[c].tableData.t = "array"
  /\ Len(calls[c].tableData.rows) >= 1

\* C1: for every table T of at least one row, SELECT * FROM T returns exactly the
\* rows of T, all of them, in the order of the table.
C1_SelectStarReturnsTable ==
  \A c \in Calls : \A T \in someTables :
    (loaded(c) /\ calls[c].query = selectStarQuery(T))
      => calls[c].outcome = Rows(calls[c].tableData.rows)

C1_Witness ==
  \E c \in Calls :
    /\ loaded(c)
    /\ calls[c].query = selectStarQuery("products")
    /\ Len(calls[c].tableData.rows) >= 2
    /\ calls[c].outcome = Rows(calls[c].tableData.rows)

\* C2: for every non-empty table, column c and literal v, the query
\* SELECT * FROM T WHERE c = v that ends right after the literal returns exactly
\* the rows whose c loosely equals v, in table order.
C2_WhereEqualsFilters ==
  \A c \in Calls : \A col \in someColumns : \A v \in someLiterals :
    (loaded(c) /\ calls[c].query = whereEqualsQuery(col, v))
      => LET equal(row) == LooseEquals(Get(row, col), Str(v))
         IN calls[c].outcome = Rows(SelectSeq(calls[c].tableData.rows, equal))

RECURSIVE totalCount(_)
totalCount(rows) ==
  IF Len(rows) = 0 THEN 0 ELSE Get(Head(rows), "COUNT(*)").n + totalCount(Tail(rows))

\* C3: for every non-empty table and column g, the query
\* SELECT g, COUNT(*) FROM T GROUP BY g that ends right after the group column
\* returns one row per distinct value of g, and the COUNT(*) values of the rows
\* sum to the number of rows of the table.
C3_CountByGroups ==
  \A c \in Calls : \A g \in someColumns :
    (loaded(c) /\ calls[c].query = countByQuery(g))
      => LET rows == calls[c].tableData.rows
             out == calls[c].outcome
         IN /\ out.kind = "rows"
            /\ Len(out.rows) = Cardinality({Get(rows[i], g) : i \in 1..Len(rows)})
            /\ \A i \in 1..Len(out.rows) : Get(out.rows[i], "COUNT(*)").t = "number"
            /\ totalCount(out.rows) = Len(rows)

\* C6: a GROUP BY query whose select list holds FN(col) with FN none of COUNT, SUM,
\* AVG, MIN and MAX fails with an unsupported-aggregation error and returns no rows.
C6_UnknownFunctionFails ==
  \A c \in Calls :
    (loaded(c) /\ calls[c].query \in {"SELECT FOO(unitPrice) FROM products GROUP BY categoryID",
                                      "SELECT FOO(unitPrice) FROM products GROUP BY categoryID "})
      => /\ calls[c].outcome.kind = "error"
         /\ startsWith(calls[c].outcome.message, "Unsupported aggregation function")

\* C7: for every table name N outside the catalog, SELECT * FROM N fails with the
\* table-not-found error and never returns rows.
C7_UnknownTableFails ==
  \A c \in Calls : \A N \in someTables :
    (/\ calls[c].pc = "done"
     /\ calls[c].query = selectStarQuery(N)
     /\ \A i \in 1..Len(getAvailableTables) : getAvailableTables[i] # N)
      => calls[c].outcome = Failure("Error", "Table '" \o N \o "' not found or empty")

\* C8: for every query with LIMIT n, the result is the first min(n, k) rows of the
\* k rows the earlier stages produced, in the same order; n larger than k returns
\* all k rows without error.
C8_LimitTakesPrefix ==
  \A c \in Calls : \A mid \in beforeLimit : \A n \in limits :
    (loaded(c) /\ calls[c].query = limitQuery(mid, n))
      => LET stages == calls[c].stages
             last == Len(stages)
             earlier == stages[last - 1].rows
             k == Len(earlier)
         IN /\ last >= 2
            /\ stages[last].stage = "limit"
            /\ stages[last].rows = [i \in 1..(IF n < k THEN n ELSE k) |-> earlier[i]]
            /\ calls[c].outcome = Rows(stages[last].rows)

C8_Witness ==
  \E c \in Calls : \E mid \in beforeLimit :
    /\ loaded(c)
    /\ calls[c].query = limitQuery(mid, 1000)
    /\ calls[c].outcome.kind = "rows"
    /\ Len(calls[c].outcome.rows) >= 2
    /\ Len(calls[c].outcome.rows) = Len(calls[c].stages[Len(calls[c].stages) - 1].rows)

(***************************************************************************)
(* Properties of the stages, under StageSpec.                              *)
(***************************************************************************)
\* the values of unitPrice in the rows the stage was applied to
pricesOf(rows) == [i \in 1..Len(rows) |-> Get(rows[i], "unitPrice")]

RECURSIVE total(_)
total(numbers) ==
  IF Len(numbers) = 0 THEN IntNum(0) ELSE NumAdd(Head(numbers), total(Tail(numbers)))

\* C4: for a group whose values of c are all non-null numbers v1..vn, n >= 1,
\* SUM(c) = v1 + ... + vn, AVG(c) = SUM(c) / n, MIN(c) is the smallest vi,
\* MAX(c) the largest vi and COUNT(c) = n.
C4_AggregatesOfNumbers ==
  (/\ returned.fn = "calculateAggregation"
   /\ \A i \in 1..Len(args) : pricesOf(args)[i].t = "number")
    => LET v == pricesOf(args)
           n == Len(v)
           value == returned.value
       IN CASE returned.functionName = "SUM" -> value = total(v)
            [] returned.functionName = "AVG" -> value = NumDivInt(total(v), n)
            [] returned.functionName = "MIN" ->
                 /\ \E i \in 1..n : value = v[i]
                 /\ \A i \in 1..n : ~NumLess(v[i], value)
            [] returned.functionName = "MAX" ->
                 /\ \E i \in 1..n : value = v[i]
                 /\ \A i \in 1..n : ~NumLess(value, v[i])
            [] returned.functionName = "COUNT" -> value = IntNum(n)

C4_Witness ==
  /\ returned.fn = "calculateAggregation"
  /\ returned.functionName = "AVG"
  /\ Len(args) >= 2
  /\ \A i \in 1..Len(args) : pricesOf(args)[i].t = "number"
  /\ \E i, j \in 1..Len(args) : pricesOf(args)[i] = IntNum(18) /\ pricesOf(args)[j] = Num(37, 2)
  /\ returned.value = NumDivInt(total(pricesOf(args)), Len(args))

\* C5: for a group in which the value of c is null or missing in every row, SUM(c),
\* AVG(c), MIN(c) and MAX(c) give null and COUNT(c) gives 0.
C5_AggregatesOfNulls ==
  (/\ returned.fn = "calculateAggregation"
   /\ \A i \in 1..Len(args) : pricesOf(args)[i].t \in {"null", "undefined"})
    => returned.value = IF returned.functionName = "COUNT" THEN IntNum(0) ELSE Null

\* the place of a row of the input in the sorted result
placeOf(row) == CHOOSE k \in 1..Len(returned.value) : returned.value[k] = row

\* C9: after ORDER BY col ASC, two rows with equal values of col come in the result
\* in the same relative order as in the input.
C9_OrderByIsStable ==
  (returned.fn = "applyOrderBy" /\ returned.orderClause = "unitPrice ASC")
    => \A i, j \in 1..Len(args) :
         (i < j /\ pricesOf(args)[i] = pricesOf(args)[j])
           => placeOf(args[i]) < placeOf(args[j])

\* x comes strictly before y in the order of the values: numbers numerically,
\* strings in the order of the locale
before(x, y) ==
  \/ x.t = "number" /\ y.t = "number" /\ NumLess(x, y)
  \/ x.t = "string" /\ y.t = "string" /\ localeCompare(x.s, y.s) < 0

\* C10: after ORDER BY a ASC, b DESC the result is non-decreasing in a, and among
\* rows of equal a the values of b are non-increasing.
C10_OrderByTwoKeys ==
  (returned.fn = "applyOrderBy" /\ returned.orderClause = "unitPrice ASC, categoryID DESC")
    => \A i, j \in 1..Len(returned.value) :
         i < j =>
           LET ri == returned.value[i]
               rj == returned.value[j]
           IN /\ ~before(Get(rj, "unitPrice"), Get(ri, "unitPrice"))
              /\ Get(ri, "unitPrice") = Get(rj, "unitPrice")
                   => ~before(Get(ri, "categoryID"), Get(rj, "categoryID"))
(***************************************************************************)
(* Properties of the engine and its cache, under Spec.                     *)
(***************************************************************************)
\* C11: two consecutive executeQuery(q) calls with no clearCache between them have
\* the same outcome: a call that started after a call of the same query had
\* finished ends with the rows, or the error, of that call.
C11_RepeatedQuerySameOutcome ==
  \A c \in Calls :
    (calls[c].pc = "done" /\ calls[c].previous # Undefined)
      => calls[c].outcome = calls[c].previous

\* C12: once dataCache holds an entry for table T, every step other than
\* clearCache keeps the entry as it is, and an executeQuery that names T and
\* starts in such a state does not go to the provider: it finishes at once, on
\* the cached sequence.
C12_CachedEntryIsKept ==
  [][ClearCache
       \/ \A T \in {dataCache[i].key : i \in 1..Len(dataCache)} :
            /\ Has(dataCache', T)
            /\ MapGet(dataCache', T) = MapGet(dataCache, T)
            /\ \A c \in Calls :
                 (calls[c].pc = "idle" /\ calls'[c].pc # "idle" /\ calls'[c].tableName = T)
                   => (calls'[c].pc = "done" /\ calls'[c].tableData = MapGet(dataCache, T))]_vars

\* C13: in every reachable state getCacheStats() gives as size the number of
\* cached tables and as tables exactly the names of the cached tables, each once;
\* right after clearCache() it gives size 0 and no tables.
C13_CacheStats ==
  /\ [](LET cached == {T \in someTables : Has(dataCache, T)}
            stats == getCacheStats
        IN /\ stats.size = Cardinality(cached)
           /\ Len(stats.tables) = stats.size
           /\ {stats.tables[i] : i \in 1..Len(stats.tables)} = cached)
  /\ [][ClearCache => getCacheStats' = [size |-> 0, tables |-> <<>>]]_vars

C13_Witness ==
  /\ getCacheStats.size = 2
  /\ getCacheStats.tables = <<"nonexistent", "products">>
  /\ \E c \in Calls : calls[c].pc = "done" /\ calls[c].tableName = "products"

\* C14: no executeQuery call changes a cached table: when a call finishes, the
\* entry of dataCache for its table holds the rows the call was given, in the
\* same order (for a table that was cached before the call, the rows it held
\* before), and the entries of the other tables are as they were.
C14_CachedTableNotChanged ==
  [][\A c \in Calls :
       (calls[c].pc # "done" /\ calls'[c].pc = "done" /\ calls'[c].form # "invalid")
         => /\ MapGet(dataCache', calls'[c].tableName) = calls'[c].tableData
            /\ (calls[c].pc = "idle" /\ Has(dataCache, calls'[c].tableName))
                 => MapGet(dataCache', calls'[c].tableName)
                      = MapGet(dataCache, calls'[c].tableName)
            /\ \A i \in 1..Len(dataCache) :
                 dataCache[i].key # calls'[c].tableName
                   => /\ Has(dataCache', dataCache[i].key)
                      /\ MapGet(dataCache', dataCache[i].key) = dataCache[i].value]_vars

C14_Witness ==
  \E c \in Calls :
    /\ calls[c].pc = "done"
    /\ calls[c].query = "SELECT * FROM products ORDER BY unitPrice LIMIT 1"
    /\ calls[c].previous # Undefined
    /\ Len(calls[c].stages) = 3
    /\ calls[c].stages[2].stage = "order"
    /\ calls[c].stages[2].rows # calls[c].tableData.rows
    /\ MapGet(dataCache, "products") = calls[c].tableData

(***************************************************************************)
(* Properties of the query forms, under QuerySpec.                         *)
(***************************************************************************)
\* C15: for a table name T of the catalog, executeQuery(T) has the outcome that
\* executeQuery('SELECT * FROM T') has on the rows the provider returned to it:
\* the same rows in the same order, or the same error.
C15_BareTableIsSelectStar ==
  \A T \in someTables \cap DOMAIN CSV_ENDPOINTS :
    (calls[1].pc = "done" /\ calls[1].query = T) =>
      \A run \in runsOf(parsedQueries[selectStarQuery(T)].form,
                        matchedClauses[selectStarQuery(T)],
                        parsedQueries[selectStarQuery(T)].columns,
                        parsedQueries[selectStarQuery(T)].tableName,
                        calls[1].tableData) :
        run.outcome = calls[1].outcome

\* the stages of handleSelectQuery that a query with the clause matches m asks for
stagesAskedFor(m, columns) ==
  <<"load">>
    \o (IF m.whereMatch.found THEN <<"where">> ELSE <<>>)
    \o (IF m.groupByMatch.found THEN <<"group">> ELSE <<>>)
    \o (IF m.orderMatch.found THEN <<"order">> ELSE <<>>)
    \o (IF m.limitMatch.found THEN <<"limit">> ELSE <<>>)
    \o (IF ~m.groupByMatch.found /\ columns[1] # "*" THEN <<"project">> ELSE <<>>)

\* the stages that ran in call c
stagesRun(c) == [i \in 1..Len(calls[c].stages) |-> calls[c].stages[i].stage]

\* what the GROUP BY stage of call c makes of the rows the stage before it left
groupedIn(c, k) ==
  applyGroupBy(calls[c].stages[k].rows, calls[c].columns,
               matchedClauses[calls[c].query].groupByMatch.g1)

\* C16: a finished executeQuery call has returned rows or has thrown an error, and
\* has called the provider at most once.  A call that returned rows ran every
\* stage its query asks for, none of which threw, and returned what the last one
\* left; a call that threw ran no stage after the one that threw, and threw the
\* error of that stage.
C16_OneEndingNoPartialResult ==
  \A c \in Calls :
    calls[c].pc = "done" =>
      /\ calls[c].outcome.kind \in {"rows", "error"}
      /\ calls[c].loads <= 1
      /\ calls[c].form = "invalid" =>
            calls[c].outcome.kind = "error" /\ calls[c].loads = 0 /\ calls[c].stages = <<>>
      /\ (calls[c].form = "select" /\ LengthOf(calls[c].tableData) = IntNum(0)) =>
            calls[c].outcome.kind = "error" /\ calls[c].stages = <<>>
      /\ (calls[c].form = "select" /\ calls[c].stages # <<>>) =>
            IF calls[c].outcome.kind = "rows"
            THEN /\ stagesRun(c) = stagesAskedFor(matchedClauses[calls[c].query],
                                                  calls[c].columns)
                 /\ calls[c].outcome.rows = calls[c].stages[Len(calls[c].stages)].rows
                 /\ \A i \in 2..Len(calls[c].stages) :
                      calls[c].stages[i].stage = "group" => ~IsThrow(groupedIn(c, i - 1))
            ELSE /\ matchedClauses[calls[c].query].groupByMatch.found
                 /\ stagesRun(c) \in {<<"load">>, <<"load", "where">>}
                 /\ stagesRun(c) = SubSeq(stagesAskedFor(matchedClauses[calls[c].query],
                                                         calls[c].columns),
                                          1, Len(calls[c].stages))
                 /\ IsThrow(groupedIn(c, Len(calls[c].stages)))
                 /\ calls[c].outcome = Failure(groupedIn(c, Len(calls[c].stages)).name,
                                               groupedIn(c, Len(calls[c].stages)).message)

\* a call whose GROUP BY stage threw after its WHERE stage had run, and a call
\* that returned the rows of its LIMIT stage
C16_Witness ==
  /\ calls[1].pc = "done"
  /\ calls[1].query = "SELECT SUM() FROM products WHERE unitPrice = 18 GROUP BY categoryID LIMIT 1"
  /\ calls[1].loads = 1
  /\ stagesRun(1) = <<"load", "where">>
  /\ Len(calls[1].stages[2].rows) >= 1
  /\ calls[1].outcome = Failure("Error", "Invalid aggregation syntax: SUM()")

(***************************************************************************)
(* Properties of the query history, under AppSpec.                         *)
(***************************************************************************)
\* the executions that returned rows, oldest first
succeeded ==
  LET returnedRows(e) == e.outcome.kind = "rows" IN SelectSeq(executions, returnedRows)

\* the latest n of them, newest first
latest(n) == [i \in 1..n |-> succeeded[Len(succeeded) + 1 - i]]

\* C17: queryHistory never holds more than 10 entries; its entries are the latest
\* executions that returned rows, as many as there are up to 10, the newest first,
\* each with its query, its rows and the time it ended; no entry is an execution that
\* failed.
C17_HistoryIsLatestTenSuccesses ==
  /\ Len(queryHistory) <= 10
  /\ Len(queryHistory) = (IF Len(succeeded) < 10 THEN Len(succeeded) ELSE 10)
  /\ \A i \in 1..Len(queryHistory) :
       /\ queryHistory[i].query = latest(Len(queryHistory))[i].query
       /\ queryHistory[i].result = latest(Len(queryHistory))[i].outcome.rows
       /\ queryHistory[i].timestamp = latest(Len(queryHistory))[i].at
       /\ \A j \in 1..Len(queryHistory) :
            i < j => queryHistory[i].timestamp > queryHistory[j].timestamp
  /\ \A k \in 1..Len(executions) :
       executions[k].outcome.kind = "error" =>
         \A i \in 1..Len(queryHistory) : queryHistory[i].timestamp # executions[k].at

\* eleven executions have returned rows and one, the second, has failed: the history
\* holds the latest ten, and the first execution has left it
C17_Witness ==
  /\ Len(executions) = 12
  /\ executions[1].outcome.kind = "rows"
  /\ executions[2].outcome.kind = "error"
  /\ Len(succeeded) = 11
  /\ Len(queryHistory) = 10
  /\ queryHistory[10].timestamp = executions[3].at
  /\ queryHistory[1].timestamp = executions[12].at

(***************************************************************************)
(* Properties of applyWhereClause, under StageSpec.                        *)
(***************************************************************************)
\* the row at place i of args is among the rows that were returned
kept(i) == \E k \in 1..Len(returned.value) : returned.value[k] = args[i]

\* applyWhereClause was applied to args with this clause
filteredBy(whereClause) ==
  returned.fn = "applyWhereClause" /\ returned.whereClause = whereClause

\* C18: a condition with a two-character operator is evaluated with that operator:
\* of the rows whose unitPrice is a number, 'unitPrice >= 18' keeps those with
\* unitPrice >= 18 and 'unitPrice <= 18' those with unitPrice <= 18; of the rows
\* that have a unitPrice, 'unitPrice != 18' keeps those whose unitPrice is not
\* loosely equal to '18'.
C18_TwoCharacterOperators ==
  \A i \in 1..Len(args) :
    /\ (filteredBy("unitPrice >= 18") /\ Get(args[i], "unitPrice").t = "number") =>
         (kept(i) <=> ~NumLess(Get(args[i], "unitPrice"), IntNum(18)))
    /\ (filteredBy("unitPrice <= 18") /\ Get(args[i], "unitPrice").t = "number") =>
         (kept(i) <=> ~NumLess(IntNum(18), Get(args[i], "unitPrice")))
    /\ (filteredBy("unitPrice != 18") /\ Get(args[i], "unitPrice").t # "undefined") =>
         (kept(i) <=> ~LooseEquals(Get(args[i], "unitPrice"), Str("18")))

\* C19: of the conditions of a WHERE clause joined by AND or by OR, every one has
\* to hold for a row to be kept: a clause 'A and B' keeps the rows for which A
\* holds and B holds, and so does 'A or B'.
C19_AndOrBothConjunctions ==
  \A i \in 1..Len(args) :
    /\ (filteredBy("categoryID = 1 and unitPrice = 18")
          \/ filteredBy("categoryID = 1 or unitPrice = 18")) =>
         (kept(i) <=> /\ evaluateCondition(args[i], "categoryID = 1")
                      /\ evaluateCondition(args[i], "unitPrice = 18"))
    /\ filteredBy("categoryID = 1 AND unitPrice > 18 OR productID = 1") =>
         (kept(i) <=> /\ evaluateCondition(args[i], "categoryID = 1")
                      /\ evaluateCondition(args[i], "unitPrice > 18")
                      /\ evaluateCondition(args[i], "productID = 1"))

\* 'A or B' was applied to a row for which A holds and B does not, and to a row
\* for which both hold: the first was dropped and the second kept
C19_Witness ==
  /\ filteredBy("categoryID = 1 or unitPrice = 18")
  /\ Len(args) = 2
  /\ evaluateCondition(args[1], "categoryID = 1")
  /\ ~evaluateCondition(args[1], "unitPrice = 18")
  /\ ~kept(1)
  /\ evaluateCondition(args[2], "categoryID = 1")
  /\ evaluateCondition(args[2], "unitPrice = 18")
  /\ kept(2)

\* C20: in a comparison with > or <, a string that is not numeric counts as 0: a
\* row whose unitPrice is such a string is kept by 'unitPrice > -1' and is not kept
\* by 'unitPrice < 0'.
C20_NonNumericStringCountsAsZero ==
  \A i \in 1..Len(args) :
    (Get(args[i], "unitPrice").t = "string" /\ ToNumber(Get(args[i], "unitPrice")) = NaN) =>
      /\ filteredBy("unitPrice > -1") => kept(i)
      /\ filteredBy("unitPrice < 0") => ~kept(i)

(***************************************************************************)
(* Properties of applyGroupBy, under StageSpec.                            *)
(***************************************************************************)
\* applyGroupBy was applied to args with these columns, grouping by categoryID,
\* and returned rows
groupedBy(columns) ==
  /\ returned.fn = "applyGroupBy"
  /\ returned.columns = columns
  /\ returned.value.t = "ok"

\* the value a row is grouped by: null stands for a missing value too
groupValue(row) ==
  IF Get(row, "categoryID").t \in {"null", "undefined"} THEN Null ELSE Get(row, "categoryID")

\* C21: two rows are in the same group iff their categoryID values are equal,
\* null and missing being equal to each other only: there are as many groups as
\* there are different values, and the COUNT(*) of the groups are the numbers of
\* rows with each value.
C21_GroupsAreValueClasses ==
  groupedBy(<<"categoryID", "COUNT(*)">>) =>
    /\ Len(returned.value.rows) = Cardinality({groupValue(args[i]) : i \in 1..Len(args)})
    /\ \A i \in 1..Len(args) :
         \E k \in 1..Len(returned.value.rows) :
           returned.value.rows[k]["COUNT(*)"]
             = IntNum(Cardinality({j \in 1..Len(args) : groupValue(args[j]) = groupValue(args[i])}))

\* C22: the keys of every row that applyGroupBy returns are the expressions of the
\* select list, each in its own text, and no other: a group column that is not
\* selected is not a key.
C22_GroupedRowHasSelectListKeys ==
  \A columns \in groupColumnLists :
    groupedBy(columns) =>
      \A k \in 1..Len(returned.value.rows) :
        DOMAIN returned.value.rows[k] = {columns[i] : i \in 1..Len(columns)}

(***************************************************************************)
(* Properties of the LIMIT, projection and stage order, under QuerySpec.   *)
(***************************************************************************)
\* C23: a query whose LIMIT value is negative or is not a number fails: it never
\* returns rows.
C23_BadLimitFails ==
  (calls[1].pc = "done" /\ calls[1].query \in badLimitQueries) =>
    calls[1].outcome.kind = "error"

\* the columns a query without GROUP BY asks for, when its list is not *
requested(c) == {calls[c].columns[i] : i \in 1..Len(calls[c].columns)}

\* C24: without GROUP BY and with a column list other than *, every result row
\* holds exactly the requested columns that its source row has, with the values
\* of the source row; a column the row lacks is left out.
C24_ProjectionKeepsRequestedColumns ==
  \A query \in projectionQueries \cup {"SELECT productID FROM products"} :
    (loaded(1) /\ calls[1].query = query /\ calls[1].columns # <<"*">>)
      => LET source == calls[1].tableData.rows
             result == calls[1].outcome
         IN /\ result.kind = "rows"
            /\ Len(result.rows) = Len(source)
            /\ \A i \in 1..Len(source) :
                 /\ DOMAIN result.rows[i] = requested(1) \cap DOMAIN source[i]
                 /\ \A col \in DOMAIN result.rows[i] : result.rows[i][col] = source[i][col]

\* what stage k of call c can make of the rows that stage k - 1 left
stageOutputs(c, k) ==
  LET m == matchedClauses[calls[c].query]
      input == calls[c].stages[k - 1].rows
      name == calls[c].stages[k].stage
  IN CASE name = "where" -> {applyWhereClause(input, m.whereMatch.g1)}
       [] name = "group" -> {groupedIn(c, k - 1).rows}
       [] name = "order" -> applyOrderBy(input, m.orderMatch.g1)
       [] name = "limit" ->
            {[i \in 1..(IF parseInt(m.limitMatch.g1) < Len(input)
                        THEN parseInt(m.limitMatch.g1) ELSE Len(input)) |-> input[i]]}
       [] name = "project" -> {[i \in 1..Len(input) |-> selectColumns(input[i], calls[c].columns)]}
       [] OTHER -> {}

\* C25: a call that returned rows ran the stages its query has a clause for, in
\* the order WHERE, GROUP BY, ORDER BY, LIMIT, projection, each on the rows the
\* stage before it left, the first on the rows of the table: the LIMIT keeps the
\* first rows of what ORDER BY left, GROUP BY aggregates what WHERE left.
C25_StagesRunInFixedOrder ==
  (calls[1].pc = "done" /\ calls[1].form = "select" /\ calls[1].outcome.kind = "rows") =>
    /\ stagesRun(1) = stagesAskedFor(matchedClauses[calls[1].query], calls[1].columns)
    /\ calls[1].stages[1].rows = calls[1].tableData.rows
    /\ \A k \in 2..Len(calls[1].stages) : calls[1].stages[k].rows \in stageOutputs(1, k)
    /\ calls[1].outcome.rows = calls[1].stages[Len(calls[1].stages)].rows

\* the newer of two products is the only row returned: the rows were sorted by
\* price before the LIMIT, and projected after it
C25_Witness ==
  /\ calls[1].pc = "done"
  /\ calls[1].query = "SELECT productID FROM products WHERE categoryID = 1 ORDER BY unitPrice DESC LIMIT 1"
  /\ stagesRun(1) = <<"load", "where", "order", "limit", "project">>
  /\ Len(calls[1].stages[2].rows) >= 2
  /\ calls[1].stages[3].rows[1] # calls[1].stages[2].rows[1]
  /\ calls[1].outcome = Rows(<<[productID |-> Str("2")]>>)

(***************************************************************************)
(* Properties of the tabs, under TabSpec.                                  *)
(***************************************************************************)
\* C26: the tab list is never empty and activeTab is the id of a tab of the list.
C26_ActiveTabIsInTheList ==
  /\ tabs # <<>>
  /\ \E i \in 1..Len(tabs) : tabs[i].id = activeTab

(***************************************************************************)
(* Properties of the cache and the provider, under Spec.                   *)
(***************************************************************************)
\* the call c ends in this step, and fails
fails(c) == calls[c].pc # "done" /\ calls'[c].pc = "done" /\ calls'[c].outcome.kind = "error"

\* C27: the step in which an executeQuery call fails leaves getCacheStats() as it
\* was, and the tables it lists afterwards are tables of the catalog.
C27_FailedCallLeavesCache ==
  [][\A c \in Calls :
       fails(c) =>
         /\ getCacheStats' = getCacheStats
         /\ \A i \in 1..Len(dataCache') :
              \E k \in 1..Len(getAvailableTables) : dataCache'[i].key = getAvailableTables[k]]_vars

\* C28: while clearCache() has run and no executeQuery call was started since, the
\* cache is empty: a fetch that was in flight does not put its table back.
C28_ClearedCacheStaysEmpty == cleared => getCacheStats.size = 0

\* C29: a call on products that is served from the cache, without a fetch of its
\* own, is evaluated on rows of the source: the cache never holds the rows the
\* provider falls back to when a fetch fails.
C29_CachedRowsAreSourceRows ==
  \A c \in Calls :
    (calls[c].pc = "done" /\ calls[c].form # "invalid" /\ calls[c].tableName = "products"
       /\ calls[c].loads = 0)
      => calls[c].tableData \in {Arr(parsedData) : parsedData \in parsedTables("products")}

(***************************************************************************)
(* Properties of the aggregates of GROUP BY, under StageSpec.              *)
(***************************************************************************)
\* C30: count(*) gives every group the value that COUNT(*) gives it, the number of
\* its rows.
C30_LowerCaseCountIsCount ==
  groupedBy(<<"categoryID", "count(*)">>) =>
    /\ applyGroupBy(args, <<"categoryID", "COUNT(*)">>, "categoryID").t = "ok"
    /\ \A k \in 1..Len(returned.value.rows) :
         returned.value.rows[k]["count(*)"]
           = applyGroupBy(args, <<"categoryID", "COUNT(*)">>, "categoryID").rows[k]["COUNT(*)"]

====
